---------------------------- MODULE Spec2Model ----------------------------
(* A model of src/job_etl.py: the job-listing ETL pipeline.                *)
(*                                                                         *)
(* Text fields are sequences of one-character strings, so that strip(),    *)
(* lower(), rsplit() and the substring test are computed, not assumed.     *)
(* A date text is a record naming its syntactic form (all digits, ISO with *)
(* or without an offset, RFC-822, date only, anything else) and the number *)
(* it spells; parsing and formatting convert between date texts and        *)
(* datetime values and are not inverse to each other.                      *)
(* Time is counted in hours: one model unit is 3600 of the code's seconds. *)
EXTENDS Integers, Sequences, FiniteSets, TLC

VARIABLES
    pc,        \* where the run is: idle, extract, transform, filter, load, done, error
    selected,  \* run_etl's list of source names
    fmt,       \* run_etl's output format
    titles,    \* run_etl's list of title searches
    idx,       \* position of the `for name in selected` loop
    fetched,   \* the adapters whose extract() has been called, in order
    feed,      \* history: the payload each of those calls fetched
    records,   \* the records extracted so far
    cleaned,   \* transform's result
    filtered,  \* filter_jobs' result
    db,        \* the rows of the jobs table of the store at the output path
    file,      \* the lines of the file at the output path
    reported,  \* the N of "Loaded N jobs", -1 before it is printed
    err,       \* the exception that ended the run, "" when none
    now,       \* the UTC clock
    tz,        \* the host's local time zone, as its offset from UTC
    written    \* history: every record handed to the store, in order

vars == <<pc, selected, fmt, titles, idx, fetched, feed, records, cleaned,
          filtered, db, file, reported, err, now, tz, written>>

-----------------------------------------------------------------------------
(* Bounds of the model.                                                    *)

\* longest list of source names handed to run_etl
MaxSel == 2
\* most items in one upstream payload
MaxItems == 2
\* most records in the input of the Transform and Filter stages
MaxRecs == 2
\* most records in one load_to_sqlite call
MaxBatch == 2
\* most records written to one store over all calls
MaxWritten == 4

-----------------------------------------------------------------------------
(* Program constants.                                                      *)

\* 24 * 60 * 60 seconds, in hours
Day == 24
\* the last hour datetime can represent (9999-12-31T23), counted from epoch
MaxEpoch == 70389527

-----------------------------------------------------------------------------
(* str: text as a sequence of characters.                                  *)

SP == " "

RECURSIVE lstrip(_)
lstrip(s) == IF s # <<>> /\ Head(s) = SP THEN lstrip(Tail(s)) ELSE s

RECURSIVE rstrip(_)
rstrip(s) ==
    IF s # <<>> /\ s[Len(s)] = SP THEN rstrip(SubSeq(s, 1, Len(s) - 1)) ELSE s

strip(s) == rstrip(lstrip(s))

LowerChar(c) ==
    CASE c = "E" -> "e"
      [] c = "D" -> "d"
      [] OTHER -> c

lower(s) == [i \in 1..Len(s) |-> LowerChar(s[i])]

\* Python's `search in text`
contains(search, text) ==
    \E i \in 1..(Len(text) + 1) :
        /\ i + Len(search) - 1 <= Len(text)
        /\ SubSeq(text, i, i + Len(search) - 1) = search

\* link.rsplit("/", 1)[-1]: what follows the last "/", or the whole text
RECURSIVE rsplit_last(_)
rsplit_last(s) ==
    IF s = <<>> THEN <<>>
    ELSE IF s[Len(s)] = "/" THEN <<>>
    ELSE Append(rsplit_last(SubSeq(s, 1, Len(s) - 1)), s[Len(s)])

\* ", ".join(list)
RECURSIVE join(_)
join(list) ==
    IF list = <<>> THEN <<>>
    ELSE IF Len(list) = 1 THEN list[1]
    ELSE list[1] \o <<",", SP>> \o join(Tail(list))

-----------------------------------------------------------------------------
(* Date texts and datetime values.                                         *)

\* A date text: kind is its syntactic form, wall the wall-clock hour it
\* spells (for "digits": the number), hasoff/off/colon its UTC offset
\* ("+0200" or "+02:00"), pad whether white space surrounds it.
DS(kind, wall, hasoff, off, colon, pad) ==
    [kind |-> kind, wall |-> wall, hasoff |-> hasoff, off |-> off,
     colon |-> colon, pad |-> pad]

EmptyText == DS("empty", 0, FALSE, 0, FALSE, FALSE)
Digits(n) == DS("digits", n, FALSE, 0, FALSE, FALSE)
IsoOffset(wall, off, colon) == DS("iso", wall, TRUE, off, colon, FALSE)
IsoNaive(wall) == DS("iso", wall, FALSE, 0, FALSE, FALSE)
Rfc822(wall, off) == DS("rfc822", wall, TRUE, off, FALSE, FALSE)
DateOnly(wall) == DS("date", wall, FALSE, 0, FALSE, FALSE)
Garbage == DS("text", 0, FALSE, 0, FALSE, FALSE)
Padded(d) == [d EXCEPT !.pad = TRUE]

\* what an exception escaping a function is written as
Raised == DS("<exception>", 0, FALSE, 0, FALSE, FALSE)

\* datetime: aware (tzinfo set, with its offset) or naive
DateTime(wall, aware, off) ==
    [tag |-> "datetime", wall |-> wall, aware |-> aware, off |-> off]
None == [tag |-> "None", wall |-> 0, aware |-> FALSE, off |-> 0]
Raise == [tag |-> "raise", wall |-> 0, aware |-> FALSE, off |-> 0]

\* str.isdigit()
isdigit(value) == value.kind = "digits" /\ ~value.pad

\* "T" in value or ":" in value
has_time_mark(value) == value.kind \in {"iso", "rfc822"}

FORMATS == <<"%Y-%m-%dT%H:%M:%S%z", "%a, %d %b %Y %H:%M:%S %z", "%Y-%m-%d">>

\* datetime.strptime(value, fmt); None stands for its ValueError
strptime(value, f) ==
    IF value.pad THEN None
    ELSE IF f = "%Y-%m-%dT%H:%M:%S%z"
        THEN IF value.kind = "iso" /\ value.hasoff
             THEN DateTime(value.wall, TRUE, value.off) ELSE None
    ELSE IF f = "%a, %d %b %Y %H:%M:%S %z"
        THEN IF value.kind = "rfc822" /\ value.hasoff
             THEN DateTime(value.wall, TRUE, value.off) ELSE None
    ELSE IF value.kind = "date"
             THEN DateTime(value.wall, FALSE, 0) ELSE None

\* datetime.utcfromtimestamp(n): a naive datetime, or an error out of range
utcfromtimestamp(n) ==
    IF n > MaxEpoch THEN Raise ELSE DateTime(n, FALSE, 0)

RECURSIVE try_formats(_, _)
try_formats(value, i) ==
    IF i > Len(FORMATS) THEN None
    ELSE IF strptime(value, FORMATS[i]) # None
         THEN strptime(value, FORMATS[i])
         ELSE try_formats(value, i + 1)

parse_datetime(value) ==
    IF value.kind = "empty" /\ ~value.pad THEN None
    ELSE IF isdigit(value) THEN utcfromtimestamp(value.wall)
    ELSE try_formats(value, 1)

\* datetime.isoformat()
isoformat(d) ==
    IF d.aware THEN IsoOffset(d.wall, d.off, TRUE) ELSE IsoNaive(d.wall)

\* datetime.date().isoformat()
date_isoformat(d) == DateOnly(d.wall - (d.wall % Day))

normalize_date(value) ==
    LET parsed == parse_datetime(value) IN
    IF parsed = Raise THEN Raised
    ELSE IF parsed = None THEN EmptyText
    ELSE IF isdigit(value) \/ has_time_mark(value) THEN isoformat(parsed)
    ELSE date_isoformat(parsed)

\* datetime.timestamp() on a host whose local time is UTC + hostoff: a naive
\* datetime is read as local time
timestamp(d, hostoff) ==
    IF d.aware THEN d.wall - d.off ELSE d.wall - hostoff

\* datetime.utcnow(): the UTC wall clock as a naive datetime
utcnow(clock) == DateTime(clock, FALSE, 0)


-----------------------------------------------------------------------------
(* The canonical record and the adapters.                                  *)

JobRecord(source, source_id, title, company, location, url, tags, date_posted, salary, description) ==
    [source |-> source, source_id |-> source_id, title |-> title,
     company |-> company, location |-> location, url |-> url, tags |-> tags,
     date_posted |-> date_posted, salary |-> salary,
     description |-> description]

FIELDS == <<"source", "source_id", "title", "company", "location", "url",
            "tags", "date_posted", "salary", "description">>

\* dict.get(key, default) on an upstream JSON object; job.keys are the keys
\* it carries
Get(job, key, default) == IF key \in job.keys THEN job[key] ELSE default

RemotiveRecord(job) ==
    JobRecord(<<"remotive">>,
              Get(job, "id", <<>>),
              Get(job, "title", <<>>),
              Get(job, "company", <<>>),
              Get(job, "location", <<>>),
              Get(job, "url", <<>>),
              join(Get(job, "tags", <<>>)),
              Get(job, "date", EmptyText),
              Get(job, "salary", <<>>),
              Get(job, "description", <<>>))

\* RemotivePortal.extract on the payload fetch_json returned
RECURSIVE RemotiveJobs(_)
RemotiveJobs(jobs) ==
    IF jobs = <<>> THEN <<>>
    ELSE <<RemotiveRecord(Head(jobs))>> \o RemotiveJobs(Tail(jobs))

RemotiveExtract(payload) ==
    RemotiveJobs(IF "jobs" \in payload.keys THEN payload.jobs ELSE <<>>)

RemoteOkRecord(job) ==
    JobRecord(<<"remoteok">>,
              Get(job, "id", <<>>),
              Get(job, "title", <<>>),
              Get(job, "company", <<>>),
              Get(job, "location", <<>>),
              Get(job, "url", <<>>),
              join(Get(job, "tags", <<>>)),
              IF "date_epoch" \in job.keys THEN Digits(job.date_epoch)
              ELSE Get(job, "date", EmptyText),
              IF Get(job, "salary", <<>>) # <<>> THEN job.salary ELSE <<>>,
              Get(job, "description", <<>>))

RemoteOkSkips(job) == ~job.isdict \/ "id" \notin job.keys

\* RemoteOkPortal.extract on the payload fetch_json returned
RECURSIVE RemoteOkExtract(_)
RemoteOkExtract(payload) ==
    IF payload = <<>> THEN <<>>
    ELSE IF RemoteOkSkips(Head(payload)) THEN RemoteOkExtract(Tail(payload))
    ELSE <<RemoteOkRecord(Head(payload))>> \o RemoteOkExtract(Tail(payload))

\* text_of(parent, tag): parent.children are the child elements it has
text_of(parent, tag) ==
    IF tag = "pubDate"
    THEN IF tag \in parent.children /\ parent[tag] # EmptyText
         THEN [parent[tag] EXCEPT !.pad = FALSE] ELSE EmptyText
    ELSE IF tag \in parent.children /\ parent[tag] # <<>>
         THEN strip(parent[tag]) ELSE <<>>

WeWorkRemotelyRecord(item) ==
    LET link == text_of(item, "link") IN
    JobRecord(<<"weworkremotely">>,
              rsplit_last(link),
              text_of(item, "title"),
              text_of(item, "company"),
              text_of(item, "region"),
              link,
              text_of(item, "category"),
              text_of(item, "pubDate"),
              <<>>,
              text_of(item, "description"))

\* WeWorkRemotelyPortal.extract on the items under channel
RECURSIVE WeWorkRemotelyExtract(_)
WeWorkRemotelyExtract(items) ==
    IF items = <<>> THEN <<>>
    ELSE <<WeWorkRemotelyRecord(Head(items))>>
         \o WeWorkRemotelyExtract(Tail(items))

PORTALS == {"remotive", "remoteok", "weworkremotely"}

extract(name, payload) ==
    CASE name = "remotive" -> RemotiveExtract(payload)
      [] name = "remoteok" -> RemoteOkExtract(payload)
      [] name = "weworkremotely" -> WeWorkRemotelyExtract(payload)

-----------------------------------------------------------------------------
(* Transform, Filter and the sinks.                                        *)

TransformRecord(record) ==
    JobRecord(record.source,
              record.source_id,
              strip(record.title),
              strip(record.company),
              strip(record.location),
              strip(record.url),
              strip(record.tags),
              normalize_date(record.date_posted),
              strip(record.salary),
              strip(record.description))

transform(recs) == [i \in 1..Len(recs) |-> TransformRecord(recs[i])]

\* transform ends with the exception normalize_date let through
transform_raises(recs) ==
    \E i \in 1..Len(recs) : normalize_date(recs[i].date_posted) = Raised

title_matches(title, lowered_titles) ==
    \E i \in 1..Len(lowered_titles) : contains(lowered_titles[i], lower(title))

cutoff(clock, hostoff) == timestamp(utcnow(clock), hostoff) - Day

\* the recency test skipped for a record whose date does not parse
KeepsUndated(record, lowered_titles, clock, hostoff) ==
    LET parsed == parse_datetime(record.date_posted) IN
    /\ ~(lowered_titles # <<>> /\ ~title_matches(record.title, lowered_titles))
    /\ ~(parsed # None /\ timestamp(parsed, hostoff) < cutoff(clock, hostoff))

\* the body of filter_jobs' loop: TRUE when the record is appended (the
\* stage runs on transform's output, whose dates parse_datetime never raises on)
Keeps(record, lowered_titles, clock, hostoff) ==
    LET parsed == parse_datetime(record.date_posted) IN
    /\ ~(lowered_titles # <<>> /\ ~title_matches(record.title, lowered_titles))
    /\ ~(parsed = None \/ timestamp(parsed, hostoff) < cutoff(clock, hostoff))

filter_jobs(recs, searches, clock, hostoff) ==
    LET lowered_titles == [i \in 1..Len(searches) |-> lower(searches[i])]
        Test(r) == Keeps(r, lowered_titles, clock, hostoff)
    IN SelectSeq(recs, Test)

\* INSERT without the conflict clause on a table that has lost its key
InsertKeepingOld(table, row) == table \cup {row}

\* INSERT OR REPLACE of one row into a table whose primary key is
\* (source, source_id)
InsertOrReplace(table, row) ==
    {x \in table : ~(x.source = row.source /\ x.source_id = row.source_id)}
        \cup {row}

\* load_to_sqlite: executemany over the records, in order
RECURSIVE load_to_sqlite(_, _)
load_to_sqlite(recs, table) ==
    IF recs = <<>> THEN table
    ELSE load_to_sqlite(Tail(recs), InsertOrReplace(table, Head(recs)))

\* load_to_csv: the header row, then one row per record
load_to_csv(recs) == <<FIELDS>> \o recs

\* load_to_jsonl: one line per record
load_to_jsonl(recs) == recs


-----------------------------------------------------------------------------
(* The inputs the environment supplies.                                    *)

SeqsUpTo(S, m) == UNION {[1..k -> S] : k \in 0..m}

\* UTC clock readings, in hours since the epoch
Clock == {100, 115}
\* host time zones: UTC-8, UTC, UTC+5
HostOffsets == {-8, 0, 5}

sEng == <<SP, "E", "n", "g", SP>>
sData == <<"D", "a", "t", "a">>
sId == <<"7">>
sIdPadded == <<SP, "7", SP>>
sLink == <<"h", "/", "7">>
sPlain == <<"x">>
sSpaced == <<SP, "x", SP>>

NAMES == PORTALS \cup {"bogus"}
OUTPUT_FORMATS == {"csv", "jsonl", "sqlite", "xml"}
TitleLists == {<<>>, <<<<"e", "n", "g">>>>}

\* a date one hour old, as the JSON feeds write it
Recent(n) == IsoOffset(n - 1, 0, FALSE)

JSON_KEYS == {"id", "title", "company", "location", "url", "tags", "date",
              "salary", "description"}

\* one entry of a JSON feed: keys are the keys it carries
JsonItem(isdict, keys, id, title, date, other) ==
    [isdict |-> isdict, keys |-> keys, id |-> id, title |-> title,
     company |-> other, location |-> other, url |-> other,
     tags |-> <<<<"p">>, <<"r">>>>, date |-> date, date_epoch |-> 0,
     salary |-> other, description |-> other]

JsonPool(n) ==
    { JsonItem(TRUE, JSON_KEYS, sId, sEng, Recent(n), sSpaced),
      JsonItem(TRUE, JSON_KEYS, sId, sData, Recent(n), sPlain),
      JsonItem(TRUE, JSON_KEYS \ {"id"}, <<>>, sEng, Recent(n), sPlain) }

RemoteOkPool(n) ==
    { JsonItem(TRUE, JSON_KEYS, sId, sEng, Recent(n), sSpaced),
      JsonItem(TRUE, JSON_KEYS \ {"id"}, <<>>, sEng, Recent(n), sPlain),
      JsonItem(FALSE, {}, <<>>, <<>>, EmptyText, <<>>),
      [JsonItem(TRUE, (JSON_KEYS \ {"date"}) \cup {"date_epoch"}, sId, sData,
                EmptyText, sPlain) EXCEPT !.date_epoch = n - 1] }

XML_TAGS == {"title", "link", "pubDate", "company", "region", "category",
             "description"}

\* one item element of the RSS feed: children are the child elements it has
XmlItem(children, link, title, pubDate, other) ==
    [children |-> children, link |-> link, title |-> title,
     pubDate |-> pubDate, company |-> other, region |-> other,
     category |-> other, description |-> other]

XmlPool(n) ==
    { XmlItem(XML_TAGS, sLink, sEng, Rfc822(n - 1, 0), sSpaced),
      XmlItem(XML_TAGS, sLink, sData, Rfc822(n - 1, 0), sPlain),
      XmlItem(XML_TAGS \ {"link"}, <<>>, sEng, Rfc822(n - 1, 0), sPlain) }

\* what the fetch of a source's endpoint can return
Payloads(name, n) ==
    CASE name = "remotive" ->
            {[keys |-> {"jobs"}, jobs |-> j] : j \in SeqsUpTo(JsonPool(n), MaxItems)}
                \cup {[keys |-> {}, jobs |-> <<>>]}
      [] name = "remoteok" -> SeqsUpTo(RemoteOkPool(n), MaxItems)
      [] name = "weworkremotely" -> SeqsUpTo(XmlPool(n), MaxItems)

-----------------------------------------------------------------------------
(* run_etl, step by step.                                                  *)

Init ==
    /\ pc = "idle"
    /\ selected = <<>>
    /\ fmt = "sqlite"
    /\ titles = <<>>
    /\ idx = 1
    /\ fetched = <<>>
    /\ feed = <<>>
    /\ records = <<>>
    /\ cleaned = <<>>
    /\ filtered = <<>>
    /\ db = {}
    /\ file = <<>>
    /\ reported = -1
    /\ err = ""
    /\ now \in Clock
    /\ tz \in HostOffsets
    /\ written = <<>>

\* run_etl(selected, output, fmt, titles) is called
Call ==
    /\ pc = "idle"
    /\ \E sel \in SeqsUpTo(NAMES, MaxSel), f \in OUTPUT_FORMATS, t \in TitleLists :
        /\ selected' = sel
        /\ fmt' = f
        /\ titles' = t
        /\ pc' = IF sel = <<>> THEN "transform" ELSE "extract"
    /\ UNCHANGED <<idx, fetched, feed, records, cleaned, filtered, db, file,
                   reported, err, now, tz, written>>

\* the loop finds a name PORTALS does not hold
UnknownPortal ==
    /\ pc = "extract"
    /\ selected[idx] \notin PORTALS
    /\ pc' = "error"
    /\ err' = "ValueError: Unknown portal"
    /\ UNCHANGED <<selected, fmt, titles, idx, fetched, feed, records, cleaned,
                   filtered, db, file, reported, now, tz, written>>

\* one turn of the loop: portal.extract() fetches and its records are added
Extract ==
    /\ pc = "extract"
    /\ selected[idx] \in PORTALS
    /\ \E payload \in Payloads(selected[idx], now) :
        /\ records' = records \o extract(selected[idx], payload)
        /\ feed' = Append(feed, payload)
    /\ fetched' = Append(fetched, selected[idx])
    /\ idx' = idx + 1
    /\ pc' = IF idx + 1 > Len(selected) THEN "transform" ELSE "extract"
    /\ UNCHANGED <<selected, fmt, titles, cleaned, filtered, db, file,
                   reported, err, now, tz, written>>

\* one turn of the loop: the fetch fails and its exception ends the run
FetchFails ==
    /\ pc = "extract"
    /\ selected[idx] \in PORTALS
    /\ fetched' = Append(fetched, selected[idx])
    /\ pc' = "error"
    /\ err' = "FetchError"
    /\ UNCHANGED <<selected, fmt, titles, idx, feed, records, cleaned,
                   filtered, db, file, reported, now, tz, written>>

\* cleaned = transform(records)
Transform ==
    /\ pc = "transform"
    /\ IF transform_raises(records)
       THEN /\ pc' = "error"
            /\ err' = "ValueError: date"
            /\ UNCHANGED cleaned
       ELSE /\ pc' = "filter"
            /\ cleaned' = transform(records)
            /\ UNCHANGED err
    /\ UNCHANGED <<selected, fmt, titles, idx, fetched, feed, records, filtered,
                   db, file, reported, now, tz, written>>

\* filtered = filter_jobs(cleaned, titles)
Filter ==
    /\ pc = "filter"
    /\ filtered' = filter_jobs(cleaned, titles, now, tz)
    /\ pc' = "load"
    /\ UNCHANGED <<selected, fmt, titles, idx, fetched, feed, records, cleaned,
                   db, file, reported, err, now, tz, written>>

\* the sink of the format runs, then "Loaded N jobs" is printed
Load ==
    /\ pc = "load"
    /\ fmt \in {"csv", "jsonl", "sqlite"}
    /\ IF fmt = "sqlite"
       THEN /\ db' = load_to_sqlite(filtered, db)
            /\ written' = written \o filtered
            /\ UNCHANGED file
       ELSE /\ file' = IF fmt = "csv" THEN load_to_csv(filtered)
                       ELSE load_to_jsonl(filtered)
            /\ UNCHANGED <<db, written>>
    /\ reported' = Len(filtered)
    /\ pc' = "done"
    /\ UNCHANGED <<selected, fmt, titles, idx, fetched, feed, records,
                   cleaned, filtered, err, now, tz>>

\* the else branch of the format chain
UnsupportedFormat ==
    /\ pc = "load"
    /\ fmt \notin {"csv", "jsonl", "sqlite"}
    /\ pc' = "error"
    /\ err' = "ValueError: Unsupported format"
    /\ UNCHANGED <<selected, fmt, titles, idx, fetched, feed, records, cleaned,
                   filtered, db, file, reported, now, tz, written>>

Next ==
    \/ Call
    \/ UnknownPortal
    \/ Extract
    \/ FetchFails
    \/ Transform
    \/ Filter
    \/ Load
    \/ UnsupportedFormat

Spec == Init /\ [][Next]_vars


-----------------------------------------------------------------------------
(* The Transform and Filter stages on arbitrary records.                   *)

Today(n) == n - (n % Day)

\* raw date_posted values of every form the feeds deliver
DateInputs(n) ==
    { Digits(n - 1), Digits(n - 48), Digits(MaxEpoch + 1),
      IsoOffset(n - 1, 0, FALSE), IsoOffset(n - 20, 0, FALSE),
      IsoOffset(n - 26, 0, FALSE), IsoOffset(n - 48, 0, FALSE),
      IsoOffset(n + 1, 2, TRUE),
      IsoNaive(n - 1),
      Rfc822(n - 1, 0),
      DateOnly(Today(n)), DateOnly(Today(n) - 3 * Day),
      Garbage, EmptyText,
      Padded(DateOnly(Today(n))), Padded(Digits(n - 1)) }

RawRecord(source_id, title, other, date_posted) ==
    JobRecord(<<"remotive">>, source_id, title, other, other, other, other,
              date_posted, other, other)

RecordPool(n) ==
    { RawRecord(sId, sEng, sSpaced, d) : d \in DateInputs(n) }
    \cup { RawRecord(sIdPadded, sData, sPlain, d) :
             d \in {IsoOffset(n - 1, 0, FALSE), IsoOffset(n - 48, 0, FALSE),
                    Garbage} }

InitStages ==
    /\ now \in Clock
    /\ tz \in HostOffsets
    /\ pc = "transform"
    /\ selected = <<>>
    /\ fmt = "sqlite"
    /\ titles \in TitleLists
    /\ idx = 1
    /\ fetched = <<>>
    /\ feed = <<>>
    /\ records \in SeqsUpTo(RecordPool(now), MaxRecs) \ {<<>>}
    /\ cleaned = <<>>
    /\ filtered = <<>>
    /\ db = {}
    /\ file = <<>>
    /\ reported = -1
    /\ err = ""
    /\ written = <<>>

NextStages == Transform \/ Filter

SpecStages == InitStages /\ [][NextStages]_vars

-----------------------------------------------------------------------------
(* The upsert store over repeated load_to_sqlite calls.                    *)

StoredRecord(source, source_id, title) ==
    JobRecord(source, source_id, title, sPlain, sPlain, sPlain, sPlain,
              IsoOffset(99, 0, TRUE), <<>>, sPlain)

SinkPool ==
    { StoredRecord(s, i, t) :
        s \in {<<"remotive">>, <<"remoteok">>}, i \in {sId, <<>>},
        t \in {<<"E", "n", "g">>, sData} }

InitSink ==
    /\ pc = "load"
    /\ selected = <<>>
    /\ fmt = "sqlite"
    /\ titles = <<>>
    /\ idx = 1
    /\ fetched = <<>>
    /\ feed = <<>>
    /\ records = <<>>
    /\ cleaned = <<>>
    /\ filtered = <<>>
    /\ db = {}
    /\ file = <<>>
    /\ reported = -1
    /\ err = ""
    /\ now = 100
    /\ tz = 0
    /\ written = <<>>

\* one run's load_to_sqlite(filtered, output) on the store the runs before
\* it left
StoreWrite ==
    /\ \E batch \in SeqsUpTo(SinkPool, MaxBatch) :
        /\ Len(written) + Len(batch) <= MaxWritten
        /\ filtered' = batch
        /\ db' = load_to_sqlite(batch, db)
        /\ written' = written \o batch
        /\ reported' = Len(batch)
    /\ UNCHANGED <<pc, selected, fmt, titles, idx, fetched, feed, records,
                   cleaned, file, err, now, tz>>

NextSink == StoreWrite

SpecSink == InitSink /\ [][NextSink]_vars


-----------------------------------------------------------------------------
(* The properties.                                                         *)

Range(seq) == {seq[i] : i \in 1..Len(seq)}

TEXT_FIELDS == {"source", "source_id", "title", "company", "location", "url",
                "tags", "salary", "description"}

\* a date text no rule of the Date Normalizer reads: empty, surrounded by
\* white space, without an offset where one is required, or anything else
Unparseable(value) ==
    \/ value.pad
    \/ value.kind \in {"empty", "text"}
    \/ value.kind = "iso" /\ ~value.hasoff

\* the instant a datetime denotes, in UTC
Instant(d) == IF d.aware THEN d.wall - d.off ELSE d.wall

\* the items of a payload, and whether one lacks its identity field
ItemsOf(name, payload) ==
    IF name = "remotive"
    THEN IF "jobs" \in payload.keys THEN payload.jobs ELSE <<>>
    ELSE payload

HasIdentity(name, item) ==
    IF name = "weworkremotely" THEN "link" \in item.children /\ item.link # <<>>
    ELSE item.isdict /\ "id" \in item.keys

RECURSIVE IdentifiedUpTo(_)
IdentifiedUpTo(k) ==
    IF k = 0 THEN 0
    ELSE IdentifiedUpTo(k - 1)
         + Cardinality({i \in 1..Len(ItemsOf(fetched[k], feed[k])) :
                          HasIdentity(fetched[k], ItemsOf(fetched[k], feed[k])[i])})

\* C1: when run_etl ends with the error of an unknown source name or of an
\* unsupported output format, no adapter's extract() has been called.
C1_ConfigErrorBeforeFetch ==
    err \in {"ValueError: Unknown portal", "ValueError: Unsupported format"}
        => fetched = <<>>

\* C2: after any sequence of load_to_sqlite calls on one store, the jobs
\* table holds exactly one row for each (source, source_id) ever written and
\* no other row, and that row is the record written last with that key.
C2_UpsertOneRowLatest ==
    LET SameKey(a, b) == a.source = b.source /\ a.source_id = b.source_id
        Last(i) == \A j \in (i + 1)..Len(written) : ~SameKey(written[i], written[j])
    IN /\ \A i \in 1..Len(written) :
            /\ Cardinality({x \in db : SameKey(x, written[i])}) = 1
            /\ Last(i) => written[i] \in db
       /\ \A x \in db : x \in Range(written)

\* C2 witness: a key written twice with different values, the later one stored
C2_Witness ==
    \E i \in 1..Len(written) : \E j \in (i + 1)..Len(written) :
        /\ written[i].source = written[j].source
        /\ written[i].source_id = written[j].source_id
        /\ written[i] # written[j]
        /\ written[j] \in db
        /\ Cardinality(db) > 1

\* C3: transform applied to transform's own result changes nothing.
C3_TransformIdempotent ==
    pc \in {"filter", "load"} => transform(cleaned) = cleaned

\* C4: of the transformed records whose title passes and whose date parses,
\* filter_jobs keeps exactly those whose instant is not earlier than the UTC
\* clock minus 24 hours.
C4_RecencyIsUtcCutoff ==
    pc = "load" =>
        \A i \in 1..Len(cleaned) :
            LET parsed == parse_datetime(cleaned[i].date_posted)
                lowered == [k \in 1..Len(titles) |-> lower(titles[k])]
            IN (/\ parsed # None
                /\ (titles = <<>> \/ title_matches(cleaned[i].title, lowered)))
               => (cleaned[i] \in Range(filtered) <=> Instant(parsed) >= now - Day)

C6_AllFieldsTrimmed ==
    pc \in {"filter", "load"} =>
        \A i \in 1..Len(cleaned) :
            /\ \A f \in TEXT_FIELDS : strip(cleaned[i][f]) = cleaned[i][f]
            /\ ~cleaned[i].date_posted.pad

\* C7: no date value makes the Transform stage end the run with an error.
C7_DateNeverFatal == err # "ValueError: date"

\* C8: every extract() returns one record for each item that carries its
\* identity field and none for the others: the records extracted so far are
\* as many as the identified items of the payloads fetched.
C8_MissingIdentitySkipped ==
    Len(feed) = Len(fetched) => Len(records) = IdentifiedUpTo(Len(fetched))

\* C9: a non-empty result of normalize_date parses again, to the instant the
\* raw text parses to.
C9_NormalizeParseRoundTrip ==
    pc \in {"filter", "load"} =>
        \A i \in 1..Len(cleaned) :
            cleaned[i].date_posted # EmptyText =>
                /\ parse_datetime(cleaned[i].date_posted) # None
                /\ timestamp(parse_datetime(cleaned[i].date_posted), tz)
                     = timestamp(parse_datetime(records[i].date_posted), tz)

\* C10: a run that ends well with the upsert sink into an empty store reports
\* as many jobs as the jobs table then holds rows.
C10_ReportedEqualsRows ==
    (pc = "done" /\ fmt = "sqlite") => reported = Cardinality(db)

=============================================================================
